---------------------------- MODULE Spec2Model ----------------------------
(***************************************************************************)
(* Model of src/ffprobe.misc.js: the ffprobe result cache.                 *)
(*                                                                         *)
(* The module keeps one map ffprobe_cache from path to either a promise    *)
(* (an asynchronous ffprobe run and its .then handlers), a metadata        *)
(* object, an error object, or the raw value the synchronous runner        *)
(* returned.  A timer replaces the whole map by an empty one.              *)
(*                                                                         *)
(* JavaScript runs each handler to completion, so every action below is    *)
(* one whole handler: a call of ffprobe(), a call of ffprobe.sync()        *)
(* (which blocks the thread for the whole run of the tool), the settling   *)
(* of an asynchronous run together with the .then handler it triggers,     *)
(* and the timer callback.                                                 *)
(*                                                                         *)
(* Objects carry an identity so that "the same object" can be told from   *)
(* "an equal object": an object is named by what allocated it, the run    *)
(* (promise) whose handler made it or the ffprobe.sync call that made it. *)
(* last, ncalls, nclears, evicted and quiet are history variables:        *)
(* they record what was called and cleared and are read by no action.     *)
(***************************************************************************)
EXTENDS Integers, Sequences, FiniteSets, TLC

VARIABLES
    ffprobe_cache,   \* path -> cache value (line 28)
    promises,        \* the promises created at line 108, in creation order
    last,            \* history: the latest call of ffprobe or ffprobe.sync
    ncalls,          \* history: calls made so far
    nclears,         \* history: firings of clearFFprobeCache so far
    evicted,         \* history: the paths whose metadata the latest clear
                     \* dropped and that were not requested since
    quiet            \* history: the paths not requested since the latest
                     \* clear (since the start, before the first clear)

vars == <<ffprobe_cache, promises, last, ncalls, nclears, evicted, quiet>>

----------------------------------------------------------------------------
(* Bounds *)

MaxCalls == 3      \* calls of ffprobe / ffprobe.sync in one behaviour
MaxClears == 2     \* firings of the cache-clearing timer in one behaviour

Paths == {"a", "b"}

----------------------------------------------------------------------------
(* What the external tool can hand back *)

\* stdout of a run that exited 0, by what lines 57-73 look at:
\*   json         cX.tryJsonParse(stdout) yields an object
\*   streams      length of info.streams (0 also stands for "not an array")
\*   format       info.format is present
\*   format_name  the comma-separated tokens of format.format_name,
\*                <<>> when the key is absent
Stdout(json, streams, format, format_name) ==
    [json |-> json, streams |-> streams, format |-> format,
     format_name |-> format_name]

Stdouts ==
    { Stdout(TRUE, 1, TRUE, <<"hls", "applehttp">>),   \* complete output
      Stdout(TRUE, 1, TRUE, <<>>),                     \* no format_name key
      Stdout(FALSE, 0, FALSE, <<>>),                   \* not JSON
      Stdout(TRUE, 0, TRUE, <<"mp3">>),                \* no stream
      Stdout(TRUE, 1, FALSE, <<>>) }                   \* no format block

NoStdout == Stdout(FALSE, 0, FALSE, <<>>)

\* What the runners settle with: {stdout} on success, {error, stderr} on
\* failure (tool error, non-zero exit, timeout).
ToolSuccess == [error : {"none"}, stdout : Stdouts]
ToolFailure == [error : {"exit", "timeout"}, stdout : {NoStdout}]
ToolResults == ToolSuccess \cup ToolFailure

----------------------------------------------------------------------------
(* Values *)

\* Every value the cache, a promise or a caller can hold:
\*   type "none"     no own property / undefined
\*   type "promise"  the promise promises[oid]
\* and three kinds of object, where oid is the promise whose handler made
\* the object or, for what ffprobe.sync made, the index of that call:
\*   type "meta"     the object literal of lines 71-85; detail is its format
\*   type "error"    an Error; detail is where it was made
\*   type "raw"      what ffprobeSync returned; never passed through
\*                   ffprobe_success
Value(type, oid, detail) == [type |-> type, oid |-> oid, detail |-> detail]

NoEntry == Value("none", 0, "")

PromiseRef(pid) == Value("promise", pid, "")

\* log.makeError(...) : a fresh Error object
makeError(kind, oid) == Value("error", oid, kind)

\* x instanceof Error (lines 113, 134)
instanceofError(x) == x.type = "error"

\* cX.varType(x)=='promise' (line 125)
isPromise(x) == x.type = "promise"

\* !x (line 125): only a missing property reads as undefined; every value
\* the module stores is an object
isFalsy(x) == x.type = "none"

\* Variants of the test of line 107, each a slip the claims below must
\* notice: a pending promise taken for a miss, and a cache never consulted.
hasOwnProperty_NoCoalesce(path) ==
    ffprobe_cache[path].type \notin {"none", "promise"}

hasOwnProperty_Never(path) == FALSE

\* ffprobe_cache.hasOwnProperty(path) (line 107)
hasOwnProperty(path) == ffprobe_cache[path].type # "none"

----------------------------------------------------------------------------
(* ffprobe_success / ffprobe_fail: the two .then handlers of line 109-112. *)
(* Each yields: throw (the handler threw, so the promise rejects), store   *)
(* (it assigned ffprobe_cache[path]) and val (what it returned or threw).  *)

\* line 73: cX.toLower(f.format_name,null).split(',')[0]; an absent
\* format_name gives null, and null.split throws inside the try block
formatField(out) == Head(out.format_name)

\* Variant of ffprobe_success that returns the metadata object without the
\* assignment to ffprobe_cache[path] of line 71.
ffprobe_success_NoStore(path, obj, oid) ==
    LET info == obj.stdout IN
    IF ~info.json \/ info.streams = 0 \/ ~info.format \/ info.format_name = <<>>
      THEN [throw |-> TRUE, store |-> FALSE,
            val |-> makeError("ExtractionError", oid)]
      ELSE [throw |-> FALSE, store |-> FALSE,
            val |-> Value("meta", oid, formatField(info))]

ffprobe_success(path, obj, oid) ==
    LET info == obj.stdout IN
    IF ~info.json
      THEN [throw |-> TRUE, store |-> FALSE,
            val |-> makeError("ExtractionError", oid)]           \* line 59
    ELSE IF info.streams = 0 \/ ~info.format
      THEN [throw |-> TRUE, store |-> FALSE,
            val |-> makeError("ExtractionError", oid)]           \* line 61
    ELSE IF info.format_name = <<>>
      THEN [throw |-> TRUE, store |-> FALSE,
            val |-> makeError("ExtractionError", oid)]           \* line 90
    ELSE [throw |-> FALSE, store |-> TRUE,
          val |-> Value("meta", oid, formatField(info))]         \* 71-87

\* Variant of ffprobe_fail that only logs (line 50) and neither caches nor
\* throws an error: the handler returns undefined, so the promise fulfils
\* with nothing.
ffprobe_fail_Swallows(path, obj, oid) ==
    [throw |-> FALSE, store |-> FALSE, val |-> NoEntry]

ffprobe_fail(path, obj, oid) ==
    [throw |-> TRUE, store |-> TRUE,
     val |-> makeError("InvocationError", oid)]                  \* 52-53

----------------------------------------------------------------------------
\* The record of a call: which entry point, for which path, the cache value
\* it found (pre), whether it started the tool, and what the caller got
\* (ret) and how: "return", "reject" (an already rejected promise, line
\* 115) or "throw".
Call(fn, path, invoked, ret, how) ==
    [fn |-> fn, path |-> path, pre |-> ffprobe_cache[path],
     invoked |-> invoked, ret |-> ret, how |-> how]

NoCall == [fn |-> "none", path |-> "", pre |-> NoEntry, invoked |-> FALSE,
           ret |-> NoEntry, how |-> ""]

\* A promise of line 108: the path it probes, its state and the value it
\* settled with; and, as history, whether the cache was cleared since its
\* run was started (stale) and whether it settled after the latest clear
\* (recent).
Promise(path) ==
    [path |-> path, state |-> "pending", val |-> NoEntry, stale |-> FALSE,
     recent |-> FALSE]

Init ==
    /\ ffprobe_cache = [p \in Paths |-> NoEntry]
    /\ promises = <<>>
    /\ last = NoCall
    /\ ncalls = 0
    /\ nclears = 0
    /\ evicted = {}
    /\ quiet = Paths

\* bookkeeping of a call that yields ret
Called(fn, path, invoked, ret, how) ==
    /\ ncalls < MaxCalls
    /\ last' = Call(fn, path, invoked, ret, how)
    /\ ncalls' = ncalls + 1
    /\ evicted' = evicted \ {path}
    /\ quiet' = quiet \ {path}
    /\ UNCHANGED nclears

\* ffprobe(path,timeout), lines 105-121.  The timeout is handed to the tool
\* and shows only in how the run ends (ToolFailure "timeout").
ffprobe(path) ==
    IF ~hasOwnProperty(path)
      THEN LET pid == Len(promises) + 1 IN                       \* line 108
           /\ promises' = Append(promises, Promise(path))
           /\ ffprobe_cache' = [ffprobe_cache EXCEPT ![path] = PromiseRef(pid)]
           /\ Called("ffprobe", path, TRUE, PromiseRef(pid), "return")
      ELSE /\ UNCHANGED <<promises, ffprobe_cache>>
           /\ IF instanceofError(ffprobe_cache[path])
                THEN Called("ffprobe", path, FALSE, ffprobe_cache[path],
                            "reject")                            \* line 115
                ELSE Called("ffprobe", path, FALSE, ffprobe_cache[path],
                            "return")                            \* line 119

\* The run behind promises[pid] ends and the matching .then handler of
\* lines 110-111 runs; the promise of line 108 settles with its outcome.
Settle(pid, obj) ==
    LET path == promises[pid].path
        r == IF obj.error = "none" THEN ffprobe_success(path, obj, pid)
                                   ELSE ffprobe_fail(path, obj, pid)
    IN  /\ promises[pid].state = "pending"
        /\ promises' = [promises EXCEPT ![pid] =
               [@ EXCEPT !.state = IF r.throw THEN "rejected" ELSE "fulfilled",
                         !.val = r.val,
                         !.recent = TRUE]]
        /\ ffprobe_cache' = IF r.store
                              THEN [ffprobe_cache EXCEPT ![path] = r.val]
                              ELSE ffprobe_cache
        /\ UNCHANGED <<last, ncalls, nclears, evicted, quiet>>

RunSucceeds ==
    \E pid \in 1..Len(promises) : \E obj \in ToolSuccess : Settle(pid, obj)

RunFails ==
    \E pid \in 1..Len(promises) : \E obj \in ToolFailure : Settle(pid, obj)

\* Variants of the test of line 125: the promise case left out, and the
\* cache never consulted.
syncMustRun_OnlyMissing(x) == isFalsy(x)

syncMustRun_Always(x) == TRUE

\* line 125: run the tool unless a settled value is cached
syncMustRun(x) == isFalsy(x) \/ isPromise(x)

\* ffprobe.sync(path,timeout), lines 123-139.  ffprobeSync returns the
\* tool's result or throws; what it throws is taken to be an Error, as the
\* test of line 134 expects.  Objects made here are named by the call.
ffprobe_sync(path, obj) ==
    LET x0 == ffprobe_cache[path] IN
    /\ IF syncMustRun(x0)
         THEN LET x == IF obj.error = "none"
                         THEN Value("raw", ncalls + 1, "")       \* line 128
                         ELSE makeError("SyncError", ncalls + 1) \* line 130
              IN /\ ffprobe_cache' = [ffprobe_cache EXCEPT ![path] = x]
                 /\ Called("sync", path, TRUE, x,
                           IF instanceofError(x) THEN "throw" ELSE "return")
         ELSE /\ UNCHANGED ffprobe_cache
              /\ Called("sync", path, FALSE, x0,
                        IF instanceofError(x0) THEN "throw" ELSE "return")
    /\ UNCHANGED promises

\* clearFFprobeCache, lines 29-32
clearFFprobeCache ==
    /\ nclears < MaxClears
    /\ nclears' = nclears + 1
    /\ evicted' = {p \in Paths : ffprobe_cache[p].type = "meta"}
    /\ quiet' = Paths
    /\ ffprobe_cache' = [p \in Paths |-> NoEntry]
    /\ promises' = [pid \in 1..Len(promises) |->
           [promises[pid] EXCEPT !.stale = TRUE, !.recent = FALSE]]
    /\ UNCHANGED <<last, ncalls>>

Next ==
    \/ \E path \in Paths : ffprobe(path)
    \/ \E path \in Paths : \E obj \in ToolResults : ffprobe_sync(path, obj)
    \/ RunSucceeds
    \/ RunFails
    \/ clearFFprobeCache

Spec == Init /\ [][Next]_vars

\* The run behind promises[pid] ends, one way or the other.
SettleSome(pid) ==
    /\ pid \in 1..Len(promises)
    /\ \E obj \in ToolResults : Settle(pid, obj)

\* Every run ends: the tool exits or the runner's timeout (the option of
\* line 108) expires, and the event loop then runs the .then handler.
FairSpec == Spec /\ \A pid \in 1..MaxCalls : WF_vars(SettleSome(pid))

----------------------------------------------------------------------------
(* Vocabulary of the properties *)

Pids == 1..Len(promises)

\* the runs of the tool in flight for a path
InFlight(path) ==
    {pid \in Pids : promises[pid].path = path /\ promises[pid].state = "pending"}

\* the cache value is a promise whose run has not ended
IsPending(x) == isPromise(x) /\ promises[x.oid].state = "pending"

\* this step is a call of ffprobe(path) / ffprobe.sync(path) / either
AsyncCallOn(path) ==
    ncalls' = ncalls + 1 /\ last'.fn = "ffprobe" /\ last'.path = path

SyncCallOn(path) ==
    ncalls' = ncalls + 1 /\ last'.fn = "sync" /\ last'.path = path

CallOn(path) == ncalls' = ncalls + 1 /\ last'.path = path

\* the run of promises[pid] ended before this state, after the latest
\* clear, and its promise rejected with an error of one of the kinds
FailedSinceClear(pid, kinds) ==
    /\ promises[pid].state = "rejected"
    /\ promises[pid].recent
    /\ promises[pid].val.detail \in kinds

----------------------------------------------------------------------------
(* C1 *)

\* C1, as stated: while a run started by ffprobe(path) has not ended, every
\* further ffprobe(path) starts no run and hands back the promise of that
\* run, so that all callers get the one object it settles with.
C1_Original ==
    [][\A pid \in Pids :
          (promises[pid].state = "pending" /\ AsyncCallOn(promises[pid].path))
          => (~last'.invoked /\ last'.ret = PromiseRef(pid))]_vars

\* C1, amended: ffprobe(path) on a path with no cache entry starts exactly
\* one run and caches its promise; every ffprobe(path) that finds that
\* promise still cached starts no run, changes nothing and hands back the
\* same promise, hence the identical result object.
C1_Coalesced ==
    [][\A path \in Paths : AsyncCallOn(path) =>
          /\ ffprobe_cache[path] = NoEntry =>
                /\ last'.invoked
                /\ Len(promises') = Len(promises) + 1
                /\ InFlight(path)' = InFlight(path) \cup {Len(promises')}
                /\ last'.ret = PromiseRef(Len(promises'))
                /\ ffprobe_cache'[path] = last'.ret
          /\ isPromise(ffprobe_cache[path]) =>
                /\ ~last'.invoked
                /\ promises' = promises
                /\ ffprobe_cache' = ffprobe_cache
                /\ last'.ret = ffprobe_cache[path]]_vars

\* a second caller was handed the promise of a run in flight, and that
\* run has since ended well: both callers hold the same metadata object
C1_Witness ==
    /\ last.fn = "ffprobe"
    /\ ~last.invoked
    /\ isPromise(last.pre)
    /\ last.ret = last.pre
    /\ promises[last.ret.oid].state = "fulfilled"

----------------------------------------------------------------------------
(* C2 *)

\* C2, as stated: at most one run of the tool started by ffprobe is in
\* flight for any path, in every reachable state.
C2_Original == \A path \in Paths : Cardinality(InFlight(path)) <= 1

\* C2, amended: of the runs started since the latest clear, at most one is
\* in flight for any path; runs started before a clear may still be in
\* flight beside it.
C2_OnePerClearPeriod ==
    \A path \in Paths :
        Cardinality({pid \in InFlight(path) : ~promises[pid].stale}) <= 1

\* two runs in flight for one path, one from before the latest clear and
\* one from after it, and a further ffprobe call that joined the newer one
C2_Witness ==
    \E path \in Paths :
        /\ Cardinality(InFlight(path)) = 2
        /\ Cardinality({pid \in InFlight(path) : ~promises[pid].stale}) = 1
        /\ last.fn = "ffprobe" /\ last.path = path /\ ~last.invoked

----------------------------------------------------------------------------
(* C3 *)

\* C3, as stated: a cache entry that is a metadata object or an error keeps
\* its value in every step other than a clear.
C3_Original ==
    [][\A path \in Paths :
          (ffprobe_cache[path].type \in {"meta", "error"} /\ nclears' = nclears)
          => ffprobe_cache'[path] = ffprobe_cache[path]]_vars

----------------------------------------------------------------------------
(* C4 *)

\* C4, as stated: when a run started by ffprobe fails, its error becomes
\* the cache entry, and every ffprobe call for the path from then until the
\* next clear starts no run and rejects with that very error.
C4_Original ==
    [][\A pid \in Pids :
          /\ (/\ promises[pid].state = "pending"
              /\ promises'[pid].state = "rejected"
              /\ promises'[pid].val.detail = "InvocationError")
             => ffprobe_cache'[promises[pid].path] = promises'[pid].val
          /\ (/\ FailedSinceClear(pid, {"InvocationError"})
              /\ AsyncCallOn(promises[pid].path))
             => (/\ ~last'.invoked
                 /\ last'.how = "reject"
                 /\ last'.ret = promises[pid].val)]_vars

----------------------------------------------------------------------------
(* C5 *)

\* C5, as stated (for failures of runs started by ffprobe): once a run has
\* failed, with an InvocationError or an ExtractionError, every request for
\* the path through ffprobe or ffprobe.sync until the next clear starts no
\* run and yields that very error: thrown, as a rejection, or as the
\* rejected promise of that run.
C5_Original ==
    [][\A pid \in Pids :
          (/\ FailedSinceClear(pid, {"InvocationError", "ExtractionError"})
           /\ CallOn(promises[pid].path))
          => (/\ ~last'.invoked
              /\ \/ last'.how \in {"reject", "throw"}
                    /\ last'.ret = promises[pid].val
                 \/ last'.ret = PromiseRef(pid))]_vars

----------------------------------------------------------------------------
(* C6 *)

\* C6, as stated: when ffprobe.sync runs the tool, what it hands back and
\* stores is what the handlers of the asynchronous path make of the same
\* tool result: the metadata object on complete output, an error thrown
\* otherwise; never the unprocessed result.
C6_Original ==
    [][\A path \in Paths : \A obj \in ToolResults :
          (syncMustRun(ffprobe_cache[path]) /\ ffprobe_sync(path, obj))
          => LET r == IF obj.error = "none"
                        THEN ffprobe_success(path, obj, ncalls')
                        ELSE ffprobe_fail(path, obj, ncalls')
             IN /\ last'.ret = r.val
                /\ last'.how = (IF r.throw THEN "throw" ELSE "return")
                /\ ffprobe_cache'[path] = r.val]_vars

----------------------------------------------------------------------------
(* C7 *)

\* C7: ffprobe.sync(path) on a path whose cache entry is the promise of a
\* run still in flight runs the tool itself, leaves every promise as it
\* was (it does not wait for the run in flight), hands back or throws an
\* object made by this very call, and leaves that object as the cache
\* entry.
C7_SyncOnPending ==
    [][\A path \in Paths :
          (SyncCallOn(path) /\ IsPending(ffprobe_cache[path]))
          => /\ last'.invoked
             /\ promises' = promises
             /\ last'.ret.type \in {"raw", "error"}
             /\ last'.ret.oid = ncalls'
             /\ last'.how = (IF last'.ret.type = "error" THEN "throw"
                                                         ELSE "return")
             /\ ffprobe_cache'[path] = last'.ret]_vars

\* ffprobe.sync has run the tool over a pending promise, which is pending
\* still, and the cache holds what that call handed back
C7_Witness ==
    /\ last.fn = "sync"
    /\ last.invoked
    /\ IsPending(last.pre)
    /\ ffprobe_cache[last.path] = last.ret

----------------------------------------------------------------------------
(* C8 *)

\* C8: ffprobe.sync(path) on a path whose cache entry is a metadata object
\* or an error starts no run, returns that metadata object or throws that
\* error, and changes neither the cache nor any promise.
C8_SyncOnSettled ==
    [][\A path \in Paths :
          (SyncCallOn(path) /\ ffprobe_cache[path].type \in {"meta", "error"})
          => /\ ~last'.invoked
             /\ last'.ret = ffprobe_cache[path]
             /\ last'.how = (IF ffprobe_cache[path].type = "error"
                               THEN "throw" ELSE "return")
             /\ ffprobe_cache' = ffprobe_cache
             /\ promises' = promises]_vars

\* ffprobe.sync found an error cached by a failed asynchronous run and
\* threw it without running the tool
C8_Witness ==
    /\ last.fn = "sync"
    /\ ~last.invoked
    /\ last.pre.type = "error"
    /\ last.pre.detail = "InvocationError"
    /\ last.how = "throw"

----------------------------------------------------------------------------
(* C9 *)

\* C9: ffprobe(path) on a path whose cache entry is a metadata object
\* starts no run and hands back that very object at once (the object
\* itself, so there is no run to wait for); cache and promises stay as
\* they were.
C9_AsyncOnResolved ==
    [][\A path \in Paths :
          (AsyncCallOn(path) /\ ffprobe_cache[path].type = "meta")
          => /\ ~last'.invoked
             /\ last'.how = "return"
             /\ last'.ret = ffprobe_cache[path]
             /\ ffprobe_cache' = ffprobe_cache
             /\ promises' = promises]_vars

\* ffprobe found metadata cached and handed it back
C9_Witness ==
    /\ last.fn = "ffprobe"
    /\ ~last.invoked
    /\ last.pre.type = "meta"
    /\ last.ret = last.pre

----------------------------------------------------------------------------
(* C10 *)

\* C10, as stated: the first request after a clear for a path whose entry
\* was a metadata object when the clear fired starts a run; and no ffprobe
\* call for a path starts a run while a run started after the latest clear
\* is in flight for it.
C10_Original ==
    [][\A path \in Paths :
          /\ (CallOn(path) /\ path \in evicted) => last'.invoked
          /\ (/\ AsyncCallOn(path)
              /\ \E pid \in InFlight(path) : ~promises[pid].stale)
             => ~last'.invoked]_vars

----------------------------------------------------------------------------
(* C11 *)

\* C11, first half: a run that was in flight when the cache was cleared
\* ends all the same, and its promise, which its callers hold, settles
\* with the object made by that run's handler.
C11_NotStranded ==
    \A pid \in 1..MaxCalls :
        (pid \in Pids /\ promises[pid].state = "pending" /\ promises[pid].stale)
        ~> (/\ pid \in Pids
            /\ promises[pid].state \in {"fulfilled", "rejected"}
            /\ promises[pid].val.oid = pid)

\* C11, second half: the first request made for a path after a clear finds
\* no entry and so starts a run of the tool.
C11_LookupsMiss ==
    [][\A path \in Paths :
          (CallOn(path) /\ nclears > 0 /\ path \in quiet) => last'.invoked]_vars

\* C11, as stated: a clear that fires while a run is in flight strands no
\* caller of that run, and lookups made after the clear miss.
C11_Original == C11_NotStranded /\ C11_LookupsMiss

----------------------------------------------------------------------------
(* C12 *)

\* C12: all callers attached to one pending promise observe one outcome.
\* A ffprobe call that finds the promise cached is handed that promise; a
\* call of either entry point and a clear leave a pending promise pending;
\* the promise settles once, with the metadata object or the error made by
\* its own run's handler, and keeps that state and value ever after.
C12_SameOutcome ==
    [][\A pid \in Pids :
          /\ (/\ AsyncCallOn(promises[pid].path)
              /\ ffprobe_cache[promises[pid].path] = PromiseRef(pid))
             => (last'.ret = PromiseRef(pid) /\ promises' = promises)
          /\ (/\ promises[pid].state = "pending"
              /\ (ncalls' # ncalls \/ nclears' # nclears))
             => promises'[pid].state = "pending"
          /\ (promises[pid].state = "pending" /\ promises'[pid].state # "pending")
             => (/\ promises'[pid].val.oid = pid
                 /\ promises'[pid].val.type =
                        (IF promises'[pid].state = "fulfilled" THEN "meta"
                                                               ELSE "error"))
          /\ promises[pid].state # "pending"
             => (/\ promises'[pid].state = promises[pid].state
                 /\ promises'[pid].val = promises[pid].val)]_vars

\* a second caller was handed a pending promise, the cache was cleared
\* after that, and the promise has then settled with its run's metadata
C12_Witness ==
    /\ last.fn = "ffprobe"
    /\ ~last.invoked
    /\ isPromise(last.ret)
    /\ last.pre = last.ret
    /\ promises[last.ret.oid].stale
    /\ promises[last.ret.oid].val = Value("meta", last.ret.oid, "hls")

----------------------------------------------------------------------------
(* C13 *)

\* C13, as stated: when a run started by ffprobe ends, the cache entry of
\* its path becomes the metadata object its promise fulfilled with, or the
\* error its promise rejected with, whether the tool or the extraction
\* failed; and the cache never holds a promise whose run has ended.
C13_Original ==
    /\ [][\A pid \in Pids :
             (promises[pid].state = "pending" /\ promises'[pid].state # "pending")
             => LET entry == ffprobe_cache'[promises[pid].path] IN
                /\ entry = promises'[pid].val
                /\ entry.type = (IF promises'[pid].state = "fulfilled"
                                   THEN "meta" ELSE "error")]_vars
    /\ [](\A path \in Paths :
             isPromise(ffprobe_cache[path]) => IsPending(ffprobe_cache[path]))

----------------------------------------------------------------------------
(* C14 *)

\* output that is unparseable or lacks a stream entry or the format block
Incomplete(out) == ~out.json \/ out.streams = 0 \/ ~out.format

\* C14, as stated: when the tool exits 0 with incomplete output, a run
\* started by ffprobe rejects its promise with an error and stores nothing,
\* and a ffprobe.sync call that ran the tool throws an error and leaves no
\* value but that error in the cache.
C14_Original ==
    [][\A obj \in ToolSuccess : Incomplete(obj.stdout) =>
          /\ \A pid \in Pids :
                Settle(pid, obj)
                => (/\ promises'[pid].state = "rejected"
                    /\ promises'[pid].val.type = "error"
                    /\ ffprobe_cache' = ffprobe_cache)
          /\ \A path \in Paths :
                (syncMustRun(ffprobe_cache[path]) /\ ffprobe_sync(path, obj))
                => (/\ last'.how = "throw"
                    /\ last'.ret.type = "error"
                    /\ ffprobe_cache'[path] = last'.ret)]_vars

----------------------------------------------------------------------------
(* C15 *)

\* C15, as stated: whatever the cache held, a call of ffprobe hands back a
\* promise (the promise of a run, or the rejected promise of line 115),
\* never a bare value.
C15_Original ==
    last.fn = "ffprobe" => (isPromise(last.ret) \/ last.how = "reject")

----------------------------------------------------------------------------
(* C16 *)

\* C16, as stated: a path that was not requested since the latest clear
\* (or, before the first clear, not requested at all) has no cache entry.
C16_Original == \A path \in quiet : ffprobe_cache[path] = NoEntry

----------------------------------------------------------------------------
(* C17 *)

\* output with at least one stream and a format block
WellFormed(out) == out.json /\ out.streams > 0 /\ out.format

\* C17, as stated: from well-formed output the handler makes a metadata
\* object whose format is the first comma-separated token of format_name,
\* or null when there is no format_name; the extraction does not fail.
\* (The tool reports format names in lower case, on which cX.toLower
\* changes nothing.)
C17_Original ==
    [][\A obj \in ToolSuccess : WellFormed(obj.stdout) =>
          \A pid \in Pids :
             Settle(pid, obj)
             => (/\ promises'[pid].state = "fulfilled"
                 /\ promises'[pid].val.type = "meta"
                 /\ promises'[pid].val.detail =
                        (IF obj.stdout.format_name = <<>>
                           THEN "null"
                           ELSE Head(obj.stdout.format_name)))]_vars

----------------------------------------------------------------------------
(* C18 *)

\* C18: when a run started by ffprobe ends and its promise fulfils, the
\* cache entry of its path is immediately afterwards the very metadata
\* object the promise fulfilled with, made by this run, whatever the entry
\* was before.
C18_CompletionStores ==
    [][\A pid \in Pids :
          (promises[pid].state = "pending" /\ promises'[pid].state = "fulfilled")
          => (/\ promises'[pid].val.type = "meta"
              /\ promises'[pid].val.oid = pid
              /\ ffprobe_cache'[promises[pid].path] = promises'[pid].val)]_vars

\* ffprobe.sync had replaced a pending promise by its own value; the run
\* of that promise has since ended well and its metadata object is the
\* cache entry, not the value ffprobe.sync left
C18_Witness ==
    /\ last.fn = "sync"
    /\ last.invoked
    /\ isPromise(last.pre)
    /\ promises[last.pre.oid].state = "fulfilled"
    /\ ffprobe_cache[last.path] = promises[last.pre.oid].val
    /\ ffprobe_cache[last.path] # last.ret

----------------------------------------------------------------------------
(* C19 *)

\* C19: right after any call of ffprobe.sync(path), whether it ran the tool
\* or not, the cache entry of the path is the very value the call returned
\* or the very error it threw, and is not a promise.
C19_SyncLeavesResult ==
    [][\A path \in Paths :
          SyncCallOn(path)
          => (/\ ffprobe_cache'[path] = last'.ret
              /\ last'.ret.type \in {"meta", "error", "raw"}
              /\ last'.how = (IF last'.ret.type = "error" THEN "throw"
                                                          ELSE "return"))]_vars

\* ffprobe.sync ran the tool, which failed; the error it threw is cached
C19_Witness ==
    /\ last.fn = "sync"
    /\ last.invoked
    /\ last.how = "throw"
    /\ last.ret = makeError("SyncError", ncalls)
    /\ ffprobe_cache[last.path] = last.ret

============================================================================
